---------------------------- MODULE Spec2Model ----------------------------
(***************************************************************************)
(* pybmd: the Timeline and MediaStorage wrappers over the host              *)
(* application's scripting handles (src/pybmd/timeline.py,                  *)
(* src/pybmd/media_storage.py).                                             *)
(*                                                                         *)
(* Every Python value is a record [kind, v, items]: kind is the Python      *)
(* type, v the printable content, items the elements of a list or the       *)
(* (key, value) entries of a dict in insertion order.  A wrapper object is  *)
(* the value whose kind is the wrapper class and whose v names the handle   *)
(* it holds ("None" for the null handle).                                   *)
(*                                                                         *)
(* The host application is the environment: each host call answers with    *)
(* any value of the operation's result type, a null result, or an          *)
(* exception.  Every wrapper method is one action, from the call to its    *)
(* return or raise; `last` and `calls` record what the caller passed and   *)
(* got back and what the host was asked.                                   *)
(***************************************************************************)
EXTENDS Naturals, Sequences, FiniteSets, TLC

\* ------------------------------------------------------------------ bounds
MaxList == 2
MaxTimelines == 2
MaxStorages == 2

HandleIds == {"h1", "h2"}

\* ------------------------------------------------------------------ values
Atom(kind, v) == [key |-> "", kind |-> kind, v |-> v]
Entry(key, kind, v) == [key |-> key, kind |-> kind, v |-> v]
Scalar(kind, v) == [kind |-> kind, v |-> v, items |-> <<>>]
ListOf(items) == [kind |-> "list", v |-> "", items |-> items]
DictOf(items) == [kind |-> "dict", v |-> "", items |-> items]
AsAtom(val) == Atom(val.kind, val.v)
AsValue(a) == Scalar(a.kind, a.v)

None == Scalar("NoneType", "None")
Handle(id) == Scalar("handle", id)
Str(s) == Scalar("str", s)
Int(s) == Scalar("int", s)
Bool(s) == Scalar("bool", s)
PurePath(s) == Scalar("PurePath", s)

SeqsUpTo(S, n) == UNION {[1..k -> S] : k \in 0..n}

Return(v) == [raised |-> FALSE, value |-> v]
Raise(e) == [raised |-> TRUE, value |-> Scalar("Exception", e)]

\* ------------------------------------------------- wrapper classes, helpers
\* The handle a wrapper holds: the attribute self.timeline, self.media_storage,
\* timeline_item.timeline_item.
Held(w) == IF w.v = "None" THEN None ELSE Handle(w.v)

Timeline(timeline) == Scalar("Timeline", timeline.v)

TimelineItem(timeline_item) == Scalar("TimelineItem", timeline_item.v)
GalleryStill(gallery_still) == Scalar("GalleryStill", gallery_still.v)
MediaPoolItem(media_pool_item) == Scalar("MediaPoolItem", media_pool_item.v)

\* str(x): a str is returned as it is, a path-like object gives its string form.
str(x) == IF x.kind = "str" THEN x ELSE Str(x.v)

\* TrackType: the members, and <member>.value.
TrackTypeMembers == {"AUDIO_TRACK", "VIDEO_TRACK", "SUBTITLE_TRACK"}

\* Mutant: the enum member passed where its .value is meant.
TrackTypeMember(track_type) == track_type

TrackTypeValue(track_type) ==
  CASE track_type.v = "AUDIO_TRACK" -> Str("audio")
    [] track_type.v = "VIDEO_TRACK" -> Str("video")
    [] track_type.v = "SUBTITLE_TRACK" -> Str("subtitle")

\* ImportOptions: the dataclass, its fields in declaration order.
ImportOptionsFields ==
  << "sourceClipsPath", "sourceClipsFolders", "autoImportSourceClipsIntoMediaPool",
     "ignoreFileExtensionsWhenMatching", "linkToSourceCameraFiles", "useSizingInfo",
     "importMultiChannelAudioTracksAsLinkedGroups", "insertAdditionalTracks",
     "insertWithOffset" >>
ImportOptionsDefaults ==
  << Atom("str", ""), Atom("str", ""), Atom("bool", "True"), Atom("bool", "False"),
     Atom("bool", "False"), Atom("bool", "False"), Atom("bool", "False"),
     Atom("bool", "True"), Atom("str", "00:00:00:00") >>
\* ImportOptions(**given): given maps some field positions to values.
ImportOptions(given) ==
  [kind |-> "ImportOptions", v |-> "",
   items |-> [k \in 1..Len(ImportOptionsFields) |->
               IF k \in DOMAIN given
                 THEN Entry(ImportOptionsFields[k], given[k].kind, given[k].v)
                 ELSE Entry(ImportOptionsFields[k], ImportOptionsDefaults[k].kind,
                            ImportOptionsDefaults[k].v)]]

\* dataclasses.asdict on a record of scalar fields: a new dict, one entry per
\* field, in field order.
asdict(o) == DictOf([k \in 1..Len(o.items) |-> Entry(o.items[k].key, o.items[k].kind, o.items[k].v)])

\* timeline_item_class_list_transfer: the held handles, appended in order.
RECURSIVE timeline_item_class_list_transfer(_)
timeline_item_class_list_transfer(timeline_item_list) ==
  IF timeline_item_list = <<>> THEN <<>>
  ELSE <<AsAtom(Held(AsValue(Head(timeline_item_list))))>>
         \o timeline_item_class_list_transfer(Tail(timeline_item_list))

\* [X(e) for e in lst] and the append loops: each element wrapped, in order.
WrapEach(kind, lst) == [k \in 1..Len(lst) |-> Atom(kind, lst[k].v)]


\* ------------------------------------------------------------------- state
VARIABLES
  timelines,   \* the Timeline wrappers the caller holds, in creation order
  storages,    \* the MediaStorage wrappers the caller holds, in creation order
  last,        \* the last wrapper invocation: receiver, method, arguments, outcome
  calls        \* the host calls that invocation made, in order, with the host's answer

vars == <<timelines, storages, last, calls>>

\* The handle of the running application (Bmd.local_davinci).
local_davinci == Handle("resolve")

\* ------------------------------------------------------- the host's answers
HostRaise == Raise("HostError")
BoolReturns == {Return(Bool("True")), Return(Bool("False")), HostRaise}
StrReturns == {Return(Str("a")), Return(Str("b")), HostRaise}
IntReturns == {Return(Int("0")), Return(Int("24")), HostRaise}
DictReturns ==
  {Return(DictOf(<<>>)), Return(DictOf(<<Entry("width", "int", "8")>>)), HostRaise}
StrListReturns ==
  {Return(ListOf(<<>>)), Return(ListOf(<<Atom("str", "/m/a"), Atom("str", "/m/b")>>)),
   HostRaise}
HandleReturns == {Return(Handle(h)) : h \in HandleIds} \cup {Return(None), HostRaise}
HandleListReturns ==
  {Return(ListOf(s)) : s \in SeqsUpTo({Atom("handle", h) : h \in HandleIds}, MaxList)}
    \cup {Return(None), HostRaise}

\* ------------------------------------------------------ the caller's inputs
PathArgs == {Str("/m/a"), PurePath("/m/a")}
PathListArgs == {ListOf(<<>>), ListOf(<<Atom("str", "/m/a"), Atom("str", "/m/b")>>)}
NameArgs == {Str("x"), Str("y")}
NumArgs == {Int("1"), Int("2")}
TrackTypeArgs == {Scalar("TrackType", m) : m \in TrackTypeMembers}
TimelineItemLists ==
  {ListOf(s) : s \in SeqsUpTo({Atom("TimelineItem", h) : h \in HandleIds}, MaxList)}
MediaPoolItemArgs == {MediaPoolItem(Handle(h)) : h \in HandleIds}
ClipInfoArgs ==
  {DictOf(<<>>),
   DictOf(<<Entry("startTimecode", "str", "00:00:00:00"), Entry("name", "str", "cc")>>)}
MarkerArgs ==
  { <<Str("10"), Str("Blue"), Str("m1"), Str("n1"), Str("1"), Str("c1")>>,
    <<Str("20"), Str("Red"), Str("m2"), Str("n2"), Str("5"), Str("c2")>> }
ImportOptionsArgs ==
  { ImportOptions(<<>>),
    ImportOptions(<<Atom("str", "/clips")>>),
    ImportOptions(<<Atom("str", ""), Atom("str", "bin"), Atom("bool", "False")>>) }

\* ------------------------------------------------------------ call mechanics
\* self.<handle>.<Op>(args): the attribute lookup on a null handle raises
\* before any call is made; otherwise one call, whose answer r is the host's.
Delegate(h, op, args, r) ==
  IF h = None
    THEN [calls |-> <<>>, out |-> Raise("AttributeError")]
    ELSE [calls |-> <<[handle |-> h, op |-> op, args |-> args,
                       raised |-> r.raised, value |-> r.value]>>,
          out |-> r]

\* What the method does with the value the call returned; an exception of the
\* call propagates.
Then(d, out) == IF d.out.raised THEN d ELSE [calls |-> d.calls, out |-> out]

\* Iterating the value a list-valued call returned.
ForEach(v, collected) ==
  IF v.kind = "list" THEN Return(ListOf(collected)) ELSE Raise("TypeError")

Self(cls, i) == IF cls = "Timeline" THEN timelines[i] ELSE storages[i]

NoInvocation ==
  [cls |-> "", idx |-> 0, method |-> "none", self |-> None,
   args |-> <<>>, argsAfter |-> <<>>, status |-> "return", result |-> None]

\* Calls are synchronous and made from one thread: the caller makes its next
\* call once it has taken the outcome of the one before.
Idle == last = NoInvocation

\* One invocation of a wrapper method, from call to return or raise.
Invoke(cls, i, method, args, d) ==
  /\ calls' = d.calls
  /\ last' = [cls |-> cls, idx |-> i, method |-> method, self |-> Self(cls, i),
              args |-> args, argsAfter |-> args,
              status |-> IF d.out.raised THEN "raise" ELSE "return",
              result |-> d.out.value]

Init ==
  /\ timelines = <<Timeline(Handle("h1"))>>
  /\ storages = <<>>
  /\ last = NoInvocation
  /\ calls = <<>>

\* ------------------------------------------------------------- MediaStorage
\* The caller takes the outcome of its last call and goes on.
Proceed ==
  /\ ~Idle
  /\ last' = NoInvocation
  /\ calls' = <<>>
  /\ UNCHANGED <<timelines, storages>>

\* Mutant: the handle stored in the class attribute, which every instance shares.
MediaStorage__init__class_attribute ==
  /\ Idle
  /\ Len(storages) < MaxStorages
  /\ \E r \in HandleReturns :
       LET d == Delegate(local_davinci, "GetMediaStorage", <<>>, r) IN
       /\ calls' = d.calls
       /\ storages' = IF d.out.raised THEN storages
                      ELSE [k \in 1..(Len(storages) + 1) |->
                              Scalar("MediaStorage", d.out.value.v)]
       /\ last' = [cls |-> "MediaStorage", idx |-> Len(storages) + 1,
                   method |-> "__init__", self |-> None, args |-> <<local_davinci>>,
                   argsAfter |-> <<local_davinci>>,
                   status |-> IF d.out.raised THEN "raise" ELSE "return",
                   result |-> IF d.out.raised THEN d.out.value ELSE None]
  /\ UNCHANGED timelines

MediaStorage__init__ ==
  /\ Idle
  /\ Len(storages) < MaxStorages
  /\ \E r \in HandleReturns :
       LET d == Delegate(local_davinci, "GetMediaStorage", <<>>, r) IN
       /\ calls' = d.calls
       /\ storages' = IF d.out.raised THEN storages
                      ELSE Append(storages, Scalar("MediaStorage", d.out.value.v))
       /\ last' = [cls |-> "MediaStorage", idx |-> Len(storages) + 1,
                   method |-> "__init__", self |-> None, args |-> <<local_davinci>>,
                   argsAfter |-> <<local_davinci>>,
                   status |-> IF d.out.raised THEN "raise" ELSE "return",
                   result |-> IF d.out.raised THEN d.out.value ELSE None]
  /\ UNCHANGED timelines

add_clip_mattes_to_media_pool(i) ==
  /\ Idle
  /\ \E media_pool_item \in MediaPoolItemArgs, paths \in PathListArgs,
        stero_eye \in {None, Str("left")}, r \in BoolReturns :
       Invoke("MediaStorage", i, "add_clip_mattes_to_media_pool",
              <<media_pool_item, paths, stero_eye>>,
              Delegate(Held(storages[i]), "AddClipMattesToMediaPool",
                       <<media_pool_item, paths, stero_eye>>, r))
  /\ UNCHANGED <<timelines, storages>>

add_item_list_to_meida_pool(i) ==
  /\ Idle
  /\ \E item_path_list \in PathListArgs, r \in HandleListReturns :
       LET d == Delegate(Held(storages[i]), "AddItemListToMediaPool",
                         <<item_path_list>>, r) IN
       Invoke("MediaStorage", i, "add_item_list_to_meida_pool", <<item_path_list>>,
              Then(d, ForEach(d.out.value, WrapEach("MediaPoolItem", d.out.value.items))))
  /\ UNCHANGED <<timelines, storages>>

add_timeline_mattes_to_media_pool(i) ==
  /\ Idle
  /\ \E paths \in PathListArgs, r \in HandleListReturns :
       LET d == Delegate(Held(storages[i]), "AddTimelineMattesToMediaPool",
                         <<paths>>, r) IN
       Invoke("MediaStorage", i, "add_timeline_mattes_to_media_pool", <<paths>>,
              Then(d, ForEach(d.out.value, WrapEach("MediaPoolItem", d.out.value.items))))
  /\ UNCHANGED <<timelines, storages>>

get_file_list(i) ==
  /\ Idle
  /\ \E folder_path \in PathArgs, r \in StrListReturns :
       Invoke("MediaStorage", i, "get_file_list", <<folder_path>>,
              Delegate(Held(storages[i]), "GetFileList", <<str(folder_path)>>, r))
  /\ UNCHANGED <<timelines, storages>>

get_mounted_volume_list(i) ==
  /\ Idle
  /\ \E r \in StrListReturns :
       Invoke("MediaStorage", i, "get_mounted_volume_list", <<>>,
              Delegate(Held(storages[i]), "GetMountedVolumeList", <<>>, r))
  /\ UNCHANGED <<timelines, storages>>

get_sub_folder_list(i) ==
  /\ Idle
  /\ \E folder_path \in PathArgs, r \in StrListReturns :
       Invoke("MediaStorage", i, "get_sub_folder_list", <<folder_path>>,
              Delegate(Held(storages[i]), "GetSubFolderList", <<str(folder_path)>>, r))
  /\ UNCHANGED <<timelines, storages>>

reveal_in_storage(i) ==
  /\ Idle
  /\ \E path \in PathArgs, r \in BoolReturns :
       Invoke("MediaStorage", i, "reveal_in_storage", <<path>>,
              Delegate(Held(storages[i]), "RevealInStorage", <<str(path)>>, r))
  /\ UNCHANGED <<timelines, storages>>

MediaStorageNext ==
  \/ MediaStorage__init__
  \/ \E i \in DOMAIN storages : add_clip_mattes_to_media_pool(i)
  \/ \E i \in DOMAIN storages : add_item_list_to_meida_pool(i)
  \/ \E i \in DOMAIN storages : add_timeline_mattes_to_media_pool(i)
  \/ \E i \in DOMAIN storages : get_file_list(i)
  \/ \E i \in DOMAIN storages : get_mounted_volume_list(i)
  \/ \E i \in DOMAIN storages : get_sub_folder_list(i)
  \/ \E i \in DOMAIN storages : reveal_in_storage(i)

\* ----------------------------------------------------------------- Timeline
\* Mutant: the name fetched twice.
repr_fetching_twice(i) ==
  /\ Idle
  /\ \E r \in StrReturns :
       LET d == Delegate(Held(timelines[i]), "GetName", <<>>, r) IN
       Invoke("Timeline", i, "__repr__", <<>>,
              Then([calls |-> d.calls \o d.calls, out |-> d.out],
                   Return(Str("Timeline:f" \o d.out.value.v))))
  /\ UNCHANGED <<timelines, storages>>

__repr__(i) ==
  /\ Idle
  /\ \E r \in StrReturns :
       LET d == Delegate(Held(timelines[i]), "GetName", <<>>, r) IN
       Invoke("Timeline", i, "__repr__", <<>>,
              Then(d, Return(Str("Timeline:f" \o d.out.value.v))))
  /\ UNCHANGED <<timelines, storages>>

add_marker(i) ==
  /\ Idle
  /\ \E a \in MarkerArgs, r \in BoolReturns :
       Invoke("Timeline", i, "add_marker", a,
              Delegate(Held(timelines[i]), "AddMarker",
                       <<a[1], a[2], a[3], a[4], a[5], a[6]>>, r))
  /\ UNCHANGED <<timelines, storages>>

apply_grade_from_drx(i) ==
  /\ Idle
  /\ \E path \in PathArgs, grade_mode \in NumArgs, timeline_items \in TimelineItemLists, r \in BoolReturns :
       Invoke("Timeline", i, "apply_grade_from_drx", <<path, grade_mode, timeline_items>>,
              Delegate(Held(timelines[i]), "ApplyGradeFromDRX", <<str(path), grade_mode, timeline_items>>, r))
  /\ UNCHANGED <<timelines, storages>>

create_compound_clip(i) ==
  /\ Idle
  /\ \E timeline_items \in TimelineItemLists, clipinfo \in ClipInfoArgs, r \in HandleReturns :
       LET d == Delegate(Held(timelines[i]), "CreateCompoundClip", <<ListOf(timeline_item_class_list_transfer(timeline_items.items)), clipinfo>>, r) IN
       Invoke("Timeline", i, "create_compound_clip", <<timeline_items, clipinfo>>,
              Then(d, Return(TimelineItem(d.out.value))))
  /\ UNCHANGED <<timelines, storages>>

create_fusion_clip(i) ==
  /\ Idle
  /\ \E timeline_items \in TimelineItemLists, r \in HandleReturns :
       LET d == Delegate(Held(timelines[i]), "CreateFusionClip", <<ListOf(timeline_item_class_list_transfer(timeline_items.items))>>, r) IN
       Invoke("Timeline", i, "create_fusion_clip", <<timeline_items>>,
              Then(d, Return(TimelineItem(d.out.value))))
  /\ UNCHANGED <<timelines, storages>>

delete_marker_at_frame(i) ==
  /\ Idle
  /\ \E frame_num \in NumArgs, r \in BoolReturns :
       Invoke("Timeline", i, "delete_marker_at_frame", <<frame_num>>,
              Delegate(Held(timelines[i]), "DeleteMarkerAtFrame", <<frame_num>>, r))
  /\ UNCHANGED <<timelines, storages>>

delete_marker_by_custom_data(i) ==
  /\ Idle
  /\ \E custom_data \in NameArgs, r \in BoolReturns :
       Invoke("Timeline", i, "delete_marker_by_custom_data", <<custom_data>>,
              Delegate(Held(timelines[i]), "DeleteMarkerByCustomData", <<custom_data>>, r))
  /\ UNCHANGED <<timelines, storages>>

delete_marker_by_color(i) ==
  /\ Idle
  /\ \E color \in NameArgs, r \in BoolReturns :
       Invoke("Timeline", i, "delete_marker_by_color", <<color>>,
              Delegate(Held(timelines[i]), "DeleteMarkerByColor", <<color>>, r))
  /\ UNCHANGED <<timelines, storages>>

\* Mutant: a null result of the host returned as None, not wrapped.
duplicate_timeline_or_none(i) ==
  /\ Idle
  /\ \E timeline_name \in NameArgs, r \in HandleReturns :
       LET c == Delegate(Held(timelines[i]), "DuplicateTimeline", <<timeline_name>>, r)
           d == Then(c, Return(IF c.out.value = None THEN None
                               ELSE Timeline(c.out.value))) IN
       /\ Invoke("Timeline", i, "duplicate_timeline", <<timeline_name>>, d)
       /\ timelines' = IF ~d.out.raised /\ d.out.value # None
                           /\ Len(timelines) < MaxTimelines
                         THEN Append(timelines, d.out.value) ELSE timelines
  /\ UNCHANGED storages

duplicate_timeline(i) ==
  /\ Idle
  /\ \E timeline_name \in NameArgs, r \in HandleReturns :
       LET c == Delegate(Held(timelines[i]), "DuplicateTimeline", <<timeline_name>>, r)
           d == Then(c, Return(Timeline(c.out.value))) IN
       /\ Invoke("Timeline", i, "duplicate_timeline", <<timeline_name>>, d)
       \* the caller keeps the new wrapper while it has room for one
       /\ timelines' = IF ~d.out.raised /\ Len(timelines) < MaxTimelines
                         THEN Append(timelines, d.out.value) ELSE timelines
  /\ UNCHANGED storages

export(i) ==
  /\ Idle
  /\ \E file_name \in PathArgs, export_type \in NameArgs, export_subtype \in {None, Str("sub")}, r \in BoolReturns :
       Invoke("Timeline", i, "export", <<file_name, export_type, export_subtype>>,
              Delegate(Held(timelines[i]), "Export", <<file_name, export_type, export_subtype>>, r))
  /\ UNCHANGED <<timelines, storages>>

get_current_clip_thumbnail_image(i) ==
  /\ Idle
  /\ \E r \in DictReturns :
       Invoke("Timeline", i, "get_current_clip_thumbnail_image", <<>>,
              Delegate(Held(timelines[i]), "GetCurrentClipThumbnailImage", <<>>, r))
  /\ UNCHANGED <<timelines, storages>>

get_current_timecode(i) ==
  /\ Idle
  /\ \E r \in StrReturns :
       Invoke("Timeline", i, "get_current_timecode", <<>>,
              Delegate(Held(timelines[i]), "GetCurrentTimecode", <<>>, r))
  /\ UNCHANGED <<timelines, storages>>

\* Mutant: the host's handle returned unwrapped.
get_current_video_item_unwrapped(i) ==
  /\ Idle
  /\ \E r \in HandleReturns :
       Invoke("Timeline", i, "get_current_video_item", <<>>,
              Delegate(Held(timelines[i]), "GetCurrentVideoItem", <<>>, r))
  /\ UNCHANGED <<timelines, storages>>

get_current_video_item(i) ==
  /\ Idle
  /\ \E r \in HandleReturns :
       LET d == Delegate(Held(timelines[i]), "GetCurrentVideoItem", <<>>, r) IN
       Invoke("Timeline", i, "get_current_video_item", <<>>,
              Then(d, Return(TimelineItem(d.out.value))))
  /\ UNCHANGED <<timelines, storages>>

get_end_frame(i) ==
  /\ Idle
  /\ \E r \in IntReturns :
       Invoke("Timeline", i, "get_end_frame", <<>>,
              Delegate(Held(timelines[i]), "GetEndFrame", <<>>, r))
  /\ UNCHANGED <<timelines, storages>>

get_item_list_in_track(i) ==
  /\ Idle
  /\ \E track_type \in TrackTypeArgs, index \in NumArgs, r \in HandleListReturns :
       LET d == Delegate(Held(timelines[i]), "GetItemListInTrack",
                         <<TrackTypeValue(track_type), index>>, r) IN
       Invoke("Timeline", i, "get_item_list_in_track", <<track_type, index>>,
              Then(d, ForEach(d.out.value, WrapEach("TimelineItem", d.out.value.items))))
  /\ UNCHANGED <<timelines, storages>>

get_marker_by_custom_data(i) ==
  /\ Idle
  /\ \E custom_data \in NameArgs, r \in DictReturns :
       Invoke("Timeline", i, "get_marker_by_custom_data", <<custom_data>>,
              Delegate(Held(timelines[i]), "GetMarkerByCustomData", <<custom_data>>, r))
  /\ UNCHANGED <<timelines, storages>>

get_marker_custom_data(i) ==
  /\ Idle
  /\ \E frame_id \in NumArgs, r \in StrReturns :
       Invoke("Timeline", i, "get_marker_custom_data", <<frame_id>>,
              Delegate(Held(timelines[i]), "GetMarkerCustomData", <<frame_id>>, r))
  /\ UNCHANGED <<timelines, storages>>

get_markers(i) ==
  /\ Idle
  /\ \E r \in DictReturns :
       Invoke("Timeline", i, "get_markers", <<>>,
              Delegate(Held(timelines[i]), "GetMarkers", <<>>, r))
  /\ UNCHANGED <<timelines, storages>>

get_name(i) ==
  /\ Idle
  /\ \E r \in StrReturns :
       Invoke("Timeline", i, "get_name", <<>>,
              Delegate(Held(timelines[i]), "GetName", <<>>, r))
  /\ UNCHANGED <<timelines, storages>>

get_setting(i) ==
  /\ Idle
  /\ \E setting_name \in {Str(""), Str("x")}, r \in StrReturns :
       Invoke("Timeline", i, "get_setting", <<setting_name>>,
              Delegate(Held(timelines[i]), "GetSetting", <<setting_name>>, r))
  /\ UNCHANGED <<timelines, storages>>

get_start_frame(i) ==
  /\ Idle
  /\ \E r \in IntReturns :
       Invoke("Timeline", i, "get_start_frame", <<>>,
              Delegate(Held(timelines[i]), "GetStartFrame", <<>>, r))
  /\ UNCHANGED <<timelines, storages>>

get_track_count(i) ==
  /\ Idle
  /\ \E track_type \in TrackTypeArgs, r \in IntReturns :
       Invoke("Timeline", i, "get_track_count", <<track_type>>,
              Delegate(Held(timelines[i]), "GetTrackCount", <<TrackTypeValue(track_type)>>, r))
  /\ UNCHANGED <<timelines, storages>>

get_track_name(i) ==
  /\ Idle
  /\ \E track_type \in TrackTypeArgs, track_index \in NumArgs, r \in StrReturns :
       Invoke("Timeline", i, "get_track_name", <<track_type, track_index>>,
              Delegate(Held(timelines[i]), "GetTrackName", <<TrackTypeValue(track_type), track_index>>, r))
  /\ UNCHANGED <<timelines, storages>>

grab_all_stills(i) ==
  /\ Idle
  /\ \E still_frame_source \in NumArgs, r \in HandleListReturns :
       LET d == Delegate(Held(timelines[i]), "GrabAllStills", <<still_frame_source>>, r) IN
       \* each element is appended as the host gave it
       Invoke("Timeline", i, "grab_all_stills", <<still_frame_source>>,
              Then(d, ForEach(d.out.value, d.out.value.items)))
  /\ UNCHANGED <<timelines, storages>>

grab_still(i) ==
  /\ Idle
  /\ \E r \in HandleReturns :
       LET d == Delegate(Held(timelines[i]), "GrabStill", <<>>, r) IN
       Invoke("Timeline", i, "grab_still", <<>>,
              Then(d, Return(GalleryStill(d.out.value))))
  /\ UNCHANGED <<timelines, storages>>

\* Mutant: the ImportOptions record passed where its mapping is meant.
import_into_timeline_record(i) ==
  /\ Idle
  /\ \E file_path \in PathArgs, import_options \in ImportOptionsArgs, r \in BoolReturns :
       Invoke("Timeline", i, "import_into_timeline", <<file_path, import_options>>,
              Delegate(Held(timelines[i]), "ImportIntoTimeline",
                       <<file_path, import_options>>, r))
  /\ UNCHANGED <<timelines, storages>>

import_into_timeline(i) ==
  /\ Idle
  /\ \E file_path \in PathArgs, import_options \in ImportOptionsArgs, r \in BoolReturns :
       Invoke("Timeline", i, "import_into_timeline", <<file_path, import_options>>,
              Delegate(Held(timelines[i]), "ImportIntoTimeline", <<file_path, asdict(import_options)>>, r))
  /\ UNCHANGED <<timelines, storages>>

insert_fusion_generator_into_timeline(i) ==
  /\ Idle
  /\ \E generator_name \in NameArgs, r \in HandleReturns :
       LET d == Delegate(Held(timelines[i]), "InsertFusionGeneratorIntoTimeline", <<generator_name>>, r) IN
       Invoke("Timeline", i, "insert_fusion_generator_into_timeline", <<generator_name>>,
              Then(d, Return(TimelineItem(d.out.value))))
  /\ UNCHANGED <<timelines, storages>>

insert_fusion_title_into_timeline(i) ==
  /\ Idle
  /\ \E title_name \in NameArgs, r \in HandleReturns :
       LET d == Delegate(Held(timelines[i]), "InsertFusionTitleIntoTimeline", <<title_name>>, r) IN
       Invoke("Timeline", i, "insert_fusion_title_into_timeline", <<title_name>>,
              Then(d, Return(TimelineItem(d.out.value))))
  /\ UNCHANGED <<timelines, storages>>

insert_generator_into_timeline(i) ==
  /\ Idle
  /\ \E generator_name \in NameArgs, r \in HandleReturns :
       LET d == Delegate(Held(timelines[i]), "InsertGeneratorIntoTimeline", <<generator_name>>, r) IN
       Invoke("Timeline", i, "insert_generator_into_timeline", <<generator_name>>,
              Then(d, Return(TimelineItem(d.out.value))))
  /\ UNCHANGED <<timelines, storages>>

insert_oFX_generator_into_timeline(i) ==
  /\ Idle
  /\ \E generator_name \in NameArgs, r \in HandleReturns :
       LET d == Delegate(Held(timelines[i]), "InsertOFXGeneratorIntoTimeline", <<generator_name>>, r) IN
       Invoke("Timeline", i, "insert_oFX_generator_into_timeline", <<generator_name>>,
              Then(d, Return(TimelineItem(d.out.value))))
  /\ UNCHANGED <<timelines, storages>>

insert_title_into_timeline(i) ==
  /\ Idle
  /\ \E title_name \in NameArgs, r \in HandleReturns :
       LET d == Delegate(Held(timelines[i]), "InsertTitleIntoTimeline", <<title_name>>, r) IN
       Invoke("Timeline", i, "insert_title_into_timeline", <<title_name>>,
              Then(d, Return(TimelineItem(d.out.value))))
  /\ UNCHANGED <<timelines, storages>>

set_current_timecode(i) ==
  /\ Idle
  /\ \E tiemcode \in NameArgs, r \in BoolReturns :
       Invoke("Timeline", i, "set_current_timecode", <<tiemcode>>,
              Delegate(Held(timelines[i]), "SetCurrentTimecode", <<tiemcode>>, r))
  /\ UNCHANGED <<timelines, storages>>

set_name(i) ==
  /\ Idle
  /\ \E timeline_name \in NameArgs, r \in BoolReturns :
       Invoke("Timeline", i, "set_name", <<timeline_name>>,
              Delegate(Held(timelines[i]), "SetName", <<timeline_name>>, r))
  /\ UNCHANGED <<timelines, storages>>

set_setting(i) ==
  /\ Idle
  /\ \E setting_name \in NameArgs, setting_value \in NameArgs, r \in BoolReturns :
       Invoke("Timeline", i, "set_setting", <<setting_name, setting_value>>,
              Delegate(Held(timelines[i]), "SetSetting", <<setting_name, setting_value>>, r))
  /\ UNCHANGED <<timelines, storages>>

set_track_name(i) ==
  /\ Idle
  /\ \E track_type \in TrackTypeArgs, track_index \in NumArgs, name \in NameArgs, r \in BoolReturns :
       Invoke("Timeline", i, "set_track_name", <<track_type, track_index, name>>,
              Delegate(Held(timelines[i]), "SetTrackName", <<TrackTypeValue(track_type), track_index, name>>, r))
  /\ UNCHANGED <<timelines, storages>>

update_marker_custom_data(i) ==
  /\ Idle
  /\ \E frame_id \in NumArgs, custom_data \in NameArgs, r \in BoolReturns :
       Invoke("Timeline", i, "update_marker_custom_data", <<frame_id, custom_data>>,
              Delegate(Held(timelines[i]), "UpdateMarkerCustomData", <<frame_id, custom_data>>, r))
  /\ UNCHANGED <<timelines, storages>>

set_start_timecode(i) ==
  /\ Idle
  /\ \E timecode \in NameArgs, r \in BoolReturns :
       Invoke("Timeline", i, "set_start_timecode", <<timecode>>,
              Delegate(Held(timelines[i]), "SetStartTimecode", <<timecode>>, r))
  /\ UNCHANGED <<timelines, storages>>

get_start_timecode(i) ==
  /\ Idle
  /\ \E r \in StrReturns :
       Invoke("Timeline", i, "get_start_timecode", <<>>,
              Delegate(Held(timelines[i]), "GetStartTimecode", <<>>, r))
  /\ UNCHANGED <<timelines, storages>>

insert_fusion_composition_into_timeline(i) ==
  /\ Idle
  /\ \E r \in HandleReturns :
       LET d == Delegate(Held(timelines[i]), "InsertFusionCompositionIntoTimeline", <<>>, r) IN
       Invoke("Timeline", i, "insert_fusion_composition_into_timeline", <<>>,
              Then(d, Return(TimelineItem(d.out.value))))
  /\ UNCHANGED <<timelines, storages>>

get_unique_id(i) ==
  /\ Idle
  /\ \E r \in StrReturns :
       Invoke("Timeline", i, "get_unique_id", <<>>,
              Delegate(Held(timelines[i]), "GetUniqueId", <<>>, r))
  /\ UNCHANGED <<timelines, storages>>

TimelineNext ==
  \/ \E i \in DOMAIN timelines : __repr__(i)
  \/ \E i \in DOMAIN timelines : add_marker(i)
  \/ \E i \in DOMAIN timelines : apply_grade_from_drx(i)
  \/ \E i \in DOMAIN timelines : create_compound_clip(i)
  \/ \E i \in DOMAIN timelines : create_fusion_clip(i)
  \/ \E i \in DOMAIN timelines : delete_marker_at_frame(i)
  \/ \E i \in DOMAIN timelines : delete_marker_by_custom_data(i)
  \/ \E i \in DOMAIN timelines : delete_marker_by_color(i)
  \/ \E i \in DOMAIN timelines : duplicate_timeline(i)
  \/ \E i \in DOMAIN timelines : export(i)
  \/ \E i \in DOMAIN timelines : get_current_clip_thumbnail_image(i)
  \/ \E i \in DOMAIN timelines : get_current_timecode(i)
  \/ \E i \in DOMAIN timelines : get_current_video_item(i)
  \/ \E i \in DOMAIN timelines : get_end_frame(i)
  \/ \E i \in DOMAIN timelines : get_item_list_in_track(i)
  \/ \E i \in DOMAIN timelines : get_marker_by_custom_data(i)
  \/ \E i \in DOMAIN timelines : get_marker_custom_data(i)
  \/ \E i \in DOMAIN timelines : get_markers(i)
  \/ \E i \in DOMAIN timelines : get_name(i)
  \/ \E i \in DOMAIN timelines : get_setting(i)
  \/ \E i \in DOMAIN timelines : get_start_frame(i)
  \/ \E i \in DOMAIN timelines : get_track_count(i)
  \/ \E i \in DOMAIN timelines : get_track_name(i)
  \/ \E i \in DOMAIN timelines : grab_all_stills(i)
  \/ \E i \in DOMAIN timelines : grab_still(i)
  \/ \E i \in DOMAIN timelines : import_into_timeline(i)
  \/ \E i \in DOMAIN timelines : insert_fusion_generator_into_timeline(i)
  \/ \E i \in DOMAIN timelines : insert_fusion_title_into_timeline(i)
  \/ \E i \in DOMAIN timelines : insert_generator_into_timeline(i)
  \/ \E i \in DOMAIN timelines : insert_oFX_generator_into_timeline(i)
  \/ \E i \in DOMAIN timelines : insert_title_into_timeline(i)
  \/ \E i \in DOMAIN timelines : set_current_timecode(i)
  \/ \E i \in DOMAIN timelines : set_name(i)
  \/ \E i \in DOMAIN timelines : set_setting(i)
  \/ \E i \in DOMAIN timelines : set_track_name(i)
  \/ \E i \in DOMAIN timelines : update_marker_custom_data(i)
  \/ \E i \in DOMAIN timelines : set_start_timecode(i)
  \/ \E i \in DOMAIN timelines : get_start_timecode(i)
  \/ \E i \in DOMAIN timelines : insert_fusion_composition_into_timeline(i)
  \/ \E i \in DOMAIN timelines : get_unique_id(i)

Next == MediaStorageNext \/ TimelineNext \/ Proceed
Spec == Init /\ [][Next]_vars


\* ================================================================== claims
\* The host operation that corresponds to each wrapper method's name.
HostOperations ==
  {
    <<"__repr__", "GetName">>,
    <<"add_marker", "AddMarker">>,
    <<"apply_grade_from_drx", "ApplyGradeFromDRX">>,
    <<"create_compound_clip", "CreateCompoundClip">>,
    <<"create_fusion_clip", "CreateFusionClip">>,
    <<"delete_marker_at_frame", "DeleteMarkerAtFrame">>,
    <<"delete_marker_by_custom_data", "DeleteMarkerByCustomData">>,
    <<"delete_marker_by_color", "DeleteMarkerByColor">>,
    <<"duplicate_timeline", "DuplicateTimeline">>,
    <<"export", "Export">>,
    <<"get_current_clip_thumbnail_image", "GetCurrentClipThumbnailImage">>,
    <<"get_current_timecode", "GetCurrentTimecode">>,
    <<"get_current_video_item", "GetCurrentVideoItem">>,
    <<"get_end_frame", "GetEndFrame">>,
    <<"get_item_list_in_track", "GetItemListInTrack">>,
    <<"get_marker_by_custom_data", "GetMarkerByCustomData">>,
    <<"get_marker_custom_data", "GetMarkerCustomData">>,
    <<"get_markers", "GetMarkers">>,
    <<"get_name", "GetName">>,
    <<"get_setting", "GetSetting">>,
    <<"get_start_frame", "GetStartFrame">>,
    <<"get_track_count", "GetTrackCount">>,
    <<"get_track_name", "GetTrackName">>,
    <<"grab_all_stills", "GrabAllStills">>,
    <<"grab_still", "GrabStill">>,
    <<"import_into_timeline", "ImportIntoTimeline">>,
    <<"insert_fusion_generator_into_timeline", "InsertFusionGeneratorIntoTimeline">>,
    <<"insert_fusion_title_into_timeline", "InsertFusionTitleIntoTimeline">>,
    <<"insert_generator_into_timeline", "InsertGeneratorIntoTimeline">>,
    <<"insert_oFX_generator_into_timeline", "InsertOFXGeneratorIntoTimeline">>,
    <<"insert_title_into_timeline", "InsertTitleIntoTimeline">>,
    <<"set_current_timecode", "SetCurrentTimecode">>,
    <<"set_name", "SetName">>,
    <<"set_setting", "SetSetting">>,
    <<"set_track_name", "SetTrackName">>,
    <<"update_marker_custom_data", "UpdateMarkerCustomData">>,
    <<"set_start_timecode", "SetStartTimecode">>,
    <<"get_start_timecode", "GetStartTimecode">>,
    <<"insert_fusion_composition_into_timeline", "InsertFusionCompositionIntoTimeline">>,
    <<"get_unique_id", "GetUniqueId">>,
    <<"add_clip_mattes_to_media_pool", "AddClipMattesToMediaPool">>,
    <<"add_item_list_to_meida_pool", "AddItemListToMediaPool">>,
    <<"add_timeline_mattes_to_media_pool", "AddTimelineMattesToMediaPool">>,
    <<"get_file_list", "GetFileList">>,
    <<"get_mounted_volume_list", "GetMountedVolumeList">>,
    <<"get_sub_folder_list", "GetSubFolderList">>,
    <<"reveal_in_storage", "RevealInStorage">>
  }
HostOp(method) == (CHOOSE p \in HostOperations : p[1] = method)[2]

Made == Len(calls) = 1
Answered == Made /\ ~calls[1].raised

ListMethods ==
  {"get_item_list_in_track", "grab_all_stills", "add_item_list_to_meida_pool",
   "add_timeline_mattes_to_media_pool"}
ListWrapper(method) ==
  CASE method = "get_item_list_in_track" -> "TimelineItem"
    [] method = "grab_all_stills" -> "GalleryStill"
    [] OTHER -> "MediaPoolItem"

HandleMethods ==
  {"create_compound_clip", "create_fusion_clip", "get_current_video_item",
   "insert_fusion_generator_into_timeline", "insert_fusion_title_into_timeline",
   "insert_generator_into_timeline", "insert_oFX_generator_into_timeline",
   "insert_title_into_timeline", "insert_fusion_composition_into_timeline",
   "grab_still", "duplicate_timeline"}
HandleWrapper(method) ==
  CASE method = "grab_still" -> "GalleryStill"
    [] method = "duplicate_timeline" -> "Timeline"
    [] OTHER -> "TimelineItem"

Primitives == {"bool", "str", "int", "dict"}

\* C1: every list-valued operation returns, for a list of raw handles from the
\* host, a list of the same length and order whose i-th element is the wrapper
\* of the operation's type holding the i-th handle.  (grab_all_stills returns
\* the raw handles.)
C1_ListResultsWrapped ==
  (last.method \in ListMethods /\ Answered /\ calls[1].value.kind = "list") =>
    /\ last.status = "return"
    /\ last.result.kind = "list"
    /\ Len(last.result.items) = Len(calls[1].value.items)
    /\ \A k \in 1..Len(calls[1].value.items) :
         last.result.items[k] = Atom(ListWrapper(last.method), calls[1].value.items[k].v)

\* C2 as stated: a Timeline operation whose host result is a handle returns the
\* wrapper of its type holding that handle, and every Timeline operation whose
\* host result is a primitive returns exactly that value.
C2_WrappedOrAsIs_AllMethods ==
  (last.cls = "Timeline" /\ Answered) =>
    /\ (last.method \in HandleMethods /\ calls[1].value.kind = "handle") =>
         /\ last.status = "return"
         /\ last.result = Scalar(HandleWrapper(last.method), calls[1].value.v)
    /\ (last.method \notin HandleMethods \cup ListMethods
          /\ calls[1].value.kind \in Primitives) =>
         /\ last.status = "return"
         /\ last.result = calls[1].value

\* C2 amended: the same, for every operation but __repr__, which returns the
\* text "Timeline:f" followed by the name the host returned.
C2_WrappedOrAsIs ==
  (last.cls = "Timeline" /\ Answered) =>
    /\ (last.method \in HandleMethods /\ calls[1].value.kind = "handle") =>
         /\ last.status = "return"
         /\ last.result = Scalar(HandleWrapper(last.method), calls[1].value.v)
    /\ (last.method \notin HandleMethods \cup ListMethods \cup {"__repr__"}
          /\ calls[1].value.kind \in Primitives) =>
         /\ last.status = "return"
         /\ last.result = calls[1].value
    /\ (last.method = "__repr__" /\ calls[1].value.kind = "str") =>
         /\ last.status = "return"
         /\ last.result = Str("Timeline:f" \o calls[1].value.v)
C2_Witness ==
  /\ last.method = "get_current_video_item"
  /\ Answered
  /\ calls[1].value = Handle("h2")
  /\ last.result = TimelineItem(Handle("h2"))

\* C3 as stated: every invocation of a Timeline or MediaStorage method makes
\* exactly one call on the held handle, to the host operation of its name.
C3_OneCall_AnyHandle ==
  (last.method \notin {"none", "__init__"}) =>
    /\ Len(calls) = 1
    /\ calls[1].op = HostOp(last.method)
    /\ calls[1].handle = Held(last.self)

\* C3 amended: every invocation on a wrapper whose held handle is not null
\* makes exactly one call on that handle, to the host operation of its name;
\* on a wrapper holding the null handle it makes none.
C3_OneCall ==
  (last.method \notin {"none", "__init__"}) =>
    IF last.self.v = "None"
      THEN calls = <<>>
      ELSE /\ Len(calls) = 1
           /\ calls[1].op = HostOp(last.method)
           /\ calls[1].handle = Held(last.self)
C3_Witness ==
  /\ last.method = "__repr__"
  /\ last.self.v # "None"
  /\ Answered
  /\ calls[1].op = "GetName"

\* C4: an invocation ends in an error exactly when the delegated host call
\* raised, and the error is then the one the host raised.  (Iterating a null
\* result of a list-valued call raises an error of the wrapper's own.)
C4_ErrorsOnlyFromHost ==
  (last.method # "none") =>
    /\ (last.status = "raise") =>
         (Made /\ calls[1].raised /\ last.result = calls[1].value)
    /\ (Made /\ calls[1].raised) => last.status = "raise"

\* C5: the handle a Timeline or MediaStorage holds never changes after
\* construction, whatever is called on it or on another wrapper and however
\* the call ends; a wrapper is its class and the one handle it holds.
C5_HandleUnchanged ==
  [][ /\ \A i \in DOMAIN timelines :
           i \in DOMAIN timelines' /\ timelines'[i] = timelines[i]
      /\ \A i \in DOMAIN storages :
           i \in DOMAIN storages' /\ storages'[i] = storages[i]
      /\ \A i \in DOMAIN timelines' :
           timelines'[i] \in {Timeline(h) : h \in {Handle(x) : x \in HandleIds} \cup {None}}
      /\ \A i \in DOMAIN storages' :
           Held(storages'[i]) \in {Handle(x) : x \in HandleIds} \cup {None}
    ]_vars
C5_Witness ==
  /\ Len(storages) = 2
  /\ storages[1].v = "h1"
  /\ storages[2].v = "h2"
  /\ last.method = "__init__"
  /\ last.status = "return"

\* C6: the six methods taking one file or folder path pass its string form to
\* the handle, and their other arguments unchanged.  (export and
\* import_into_timeline pass the path as given.)
PathMethods ==
  {"get_file_list", "get_sub_folder_list", "reveal_in_storage",
   "apply_grade_from_drx", "export", "import_into_timeline"}
C6_PathsCoerced ==
  (last.method \in PathMethods /\ Made) =>
    /\ calls[1].args[1] = Str(last.args[1].v)
    /\ Len(calls[1].args) = Len(last.args)
    /\ last.method # "import_into_timeline" =>
         \A k \in 2..Len(last.args) : calls[1].args[k] = last.args[k]

\* C7: the four track methods pass the member's string value as the track
\* type and the other arguments unchanged; members map to strings one-to-one.
TrackMethods ==
  {"get_item_list_in_track", "get_track_count", "get_track_name", "set_track_name"}
TrackTypeString(member) ==
  CASE member = "AUDIO_TRACK" -> "audio"
    [] member = "VIDEO_TRACK" -> "video"
    [] member = "SUBTITLE_TRACK" -> "subtitle"
C7_TrackTypeValuePassed ==
  /\ (last.method \in TrackMethods /\ Made) =>
       /\ calls[1].args[1] = Str(TrackTypeString(last.args[1].v))
       /\ Len(calls[1].args) = Len(last.args)
       /\ \A k \in 2..Len(last.args) : calls[1].args[k] = last.args[k]
  /\ \A m1, m2 \in TrackTypeArgs :
       TrackTypeValue(m1) = TrackTypeValue(m2) => m1 = m2
C7_Witness ==
  /\ last.method = "set_track_name"
  /\ last.args[1] = Scalar("TrackType", "SUBTITLE_TRACK")
  /\ Made
  /\ calls[1].args = <<Str("subtitle"), Int("2"), Str("y")>>

\* C8: import_into_timeline passes the file path and the mapping of the nine
\* ImportOptions fields to the record's values; the defaults are as listed;
\* the record is not modified.
C8_DefaultMapping ==
  << Entry("sourceClipsPath", "str", ""),
     Entry("sourceClipsFolders", "str", ""),
     Entry("autoImportSourceClipsIntoMediaPool", "bool", "True"),
     Entry("ignoreFileExtensionsWhenMatching", "bool", "False"),
     Entry("linkToSourceCameraFiles", "bool", "False"),
     Entry("useSizingInfo", "bool", "False"),
     Entry("importMultiChannelAudioTracksAsLinkedGroups", "bool", "False"),
     Entry("insertAdditionalTracks", "bool", "True"),
     Entry("insertWithOffset", "str", "00:00:00:00") >>
C8_OptionsMapping ==
  (last.method = "import_into_timeline" /\ Made) =>
    LET opts == last.args[2]
        sent == calls[1].args[2]
    IN /\ Len(calls[1].args) = 2
       /\ calls[1].args[1] = last.args[1]
       /\ sent.kind = "dict"
       /\ Len(sent.items) = Len(C8_DefaultMapping)
       /\ {sent.items[k].key : k \in 1..Len(sent.items)}
            = {C8_DefaultMapping[k].key : k \in 1..Len(C8_DefaultMapping)}
       /\ \A k \in 1..Len(sent.items) :
            \E j \in 1..Len(opts.items) : opts.items[j] = sent.items[k]
       /\ opts = ImportOptions(<<>>) => sent = DictOf(C8_DefaultMapping)
       /\ last.argsAfter = last.args
C8_Witness ==
  /\ last.method = "import_into_timeline"
  /\ Answered
  /\ last.args[2] = ImportOptions(<<Atom("str", "/clips")>>)
  /\ calls[1].args[2].items[1] = Entry("sourceClipsPath", "str", "/clips")

\* C9: every operation taking wrapper objects passes the raw handles they hold,
\* in the same order and number, never the wrappers.  (apply_grade_from_drx and
\* add_clip_mattes_to_media_pool pass the wrappers.)
WrapperArgAt(method) ==
  CASE method = "apply_grade_from_drx" -> 3
    [] OTHER -> 1
C9_RawHandlesPassed ==
  (last.method \in {"create_compound_clip", "create_fusion_clip",
                    "apply_grade_from_drx", "add_clip_mattes_to_media_pool"}
     /\ Made) =>
    LET given == last.args[WrapperArgAt(last.method)]
        sent == calls[1].args[WrapperArgAt(last.method)]
    IN /\ last.argsAfter = last.args
       /\ IF given.kind = "list"
            THEN /\ sent.kind = "list"
                 /\ Len(sent.items) = Len(given.items)
                 /\ \A k \in 1..Len(given.items) :
                      sent.items[k] = Atom("handle", given.items[k].v)
            ELSE sent = Handle(given.v)

\* C10: when a handle-valued host call returns the null handle, the method
\* still returns a wrapper, holding the null handle; the failure shows when a
\* method is later called on that wrapper.
C10_NullHandleWrapped ==
  /\ (last.method \in HandleMethods /\ Answered /\ calls[1].value = None) =>
       /\ last.status = "return"
       /\ last.result = Scalar(HandleWrapper(last.method), "None")
  /\ (last.cls = "Timeline" /\ last.self.v = "None") =>
       /\ last.status = "raise"
       /\ calls = <<>>
C10_Witness ==
  /\ last.cls = "Timeline"
  /\ last.self = Timeline(None)
  /\ last.method = "get_name"
  /\ last.status = "raise"

=============================================================================
